---------------------------- MODULE Spec2Model ----------------------------
(***************************************************************************)
(* A model of drhdev/mhsnapshots: the snapshot lifecycle manager           *)
(* (src/src/mhsnapshots.py) and the status notifier                        *)
(* (src/src/log2telegram.py).                                              *)
(*                                                                         *)
(* Three groups of variables, one per part of the program:                 *)
(*   - the retention function identify_snapshots_to_delete, applied to     *)
(*     bounded inputs (SpecRetention);                                     *)
(*   - the notifier: send_telegram_message / format_message applied to     *)
(*     bounded inputs (SpecSend) and process_log over a log file           *)
(*     (SpecNotifier);                                                     *)
(*   - the manager: load_configs, get_hcloud_path, run and                 *)
(*     manage_snapshots_for_server against a provider (Spec, SpecServer).  *)
(* A specification leaves the variables of the other groups idle.          *)
(*                                                                         *)
(* Text is modelled as a sequence of pieces (a separator character, or a   *)
(* run of other characters), so that str.split and the f-string            *)
(* formatting are computed and not assumed.                                *)
(***************************************************************************)
EXTENDS Integers, Sequences, FiniteSets, TLC

VARIABLES
    \* ---- identify_snapshots_to_delete(server, snapshots, retain)
    fpc,            \* "call" before the call, "returned" after it
    arg_snapshots,  \* the list passed in (sorted in place by the call)
    arg_retain,     \* the retention count passed in
    to_delete,      \* the list returned
    input0,         \* history: the list as it was when the call was made
    \* ---- log2telegram.py: process_log
    npc,            \* where the notifier is
    log_file,       \* mhsnapshots.log: whether it exists, and its lines
    final_status_entries,   \* the (line_number, message) pairs the scan kept
    idx,            \* the loop index over final_status_entries (from 1)
    relay,          \* history: process_log's calls, "send" and "sleep"
    \* ---- log2telegram.py: send_telegram_message(message, retries)
    message,        \* the raw message passed in
    retries,        \* the retry count passed in
    formatted_message,      \* what format_message returned
    warned,         \* whether format_message logged its warning
    attempt,        \* the loop variable of the retry loop
    send_result,    \* "none" until the call returns, then TRUE or FALSE
    net,            \* history: this call's POSTs (each named by its outcome) and "sleep"s, in order
    posted,         \* history: the texts this call POSTed
    \* ---- mhsnapshots.py: SnapshotManager
    mpc,            \* where the manager is
    configs,        \* the configuration files named on the command line
    servers,        \* self.servers
    hcloud_path,    \* self.hcloud_path: "unset", "found" or "none"
    exit_code,      \* the exit status of the process, -1 while it runs
    sidx,           \* the position in self.servers of the server in work (from 1)
    provider,       \* the snapshots the provider holds, in the order it lists them
    clock,          \* the creation time the provider gives the next snapshot
    snapshot_id,    \* create_snapshot: the id read from the command's output
    snapshot_name,  \* manage_snapshots_for_server: snapshot_name, <<>> for None
    elapsed,        \* wait_for_snapshot_ready: time.time() - start_time
    polls,          \* history: describe commands of the wait in progress
    naps,           \* history: time.sleep(10) calls of the wait in progress
    snapshots_to_delete,    \* manage_snapshots_for_server: snapshots_to_delete
    del_idx,        \* delete_snapshots: the position of the loop in the list
    total_snapshots,        \* manage_snapshots_for_server: total_snapshots
    cmds,           \* history: the steps taken for the server in work, in order
    runlog,         \* history: what run() did, server by server
    faults,         \* failures the environment may still produce
    \* ---- mhsnapshots.py: run_command(command, api_token)
    cpc,            \* "call" before the call, then "returned" or "raised"
    arg_command,    \* the command text passed in
    arg_token,      \* the api_token passed in
    ending,         \* how subprocess.run ends for this command
    argv,           \* the argument list handed to subprocess.run
    child_env,      \* the env handed to subprocess.run
    environ,        \* os.environ of the manager
    logged,         \* the records run_command wrote to the log
    ret_value       \* what the call returned

retVars == <<fpc, arg_snapshots, arg_retain, to_delete, input0>>
logVars == <<log_file, final_status_entries, idx, relay>>
sendVars == <<message, retries, formatted_message, warned, attempt,
              send_result, net, posted>>
notVars == <<npc, logVars, sendVars>>
mgrVars == <<mpc, configs, servers, hcloud_path, exit_code, sidx, provider, clock,
             snapshot_id, snapshot_name, elapsed, polls, naps, snapshots_to_delete,
             del_idx, total_snapshots, cmds, runlog, faults>>

cmdVars == <<cpc, arg_command, arg_token, ending, argv, child_env, environ, logged,
             ret_value>>

vars == <<retVars, notVars, mgrVars, cmdVars>>

----------------------------------------------------------------------------
(* Bounds of the model *)

MaxSnaps == 3       \* snapshots in a list handed to the retention function
MaxTime == 3        \* creation times are drawn from 1..MaxTime
MaxRetain == 4      \* retention counts are drawn from 0..MaxRetain
MaxFields == 9      \* ' | '-separated pieces a raw message is built from
MaxRetries == 3     \* send_telegram_message is called with retries in 0..MaxRetries
MaxLines == 3       \* lines in the log file

----------------------------------------------------------------------------
(* Python list helpers *)

Min(a, b) == IF a < b THEN a ELSE b
Max(a, b) == IF a > b THEN a ELSE b

Range(s) == {s[i] : i \in 1..Len(s)}

\* The start or stop index of a slice, clamped as Python clamps it:
\* a negative index counts from the end.
PyIndex(k, n) == IF k < 0 THEN Max(n + k, 0) ELSE Min(k, n)

\* s[k:] with one element too many kept (an off-by-one in the slice)
PySliceFromOffByOne(s, k) == SubSeq(s, PyIndex(k + 1, Len(s)) + 1, Len(s))

\* s[k:]
PySliceFrom(s, k) == SubSeq(s, PyIndex(k, Len(s)) + 1, Len(s))

\* s[:k]
PySliceTo(s, k) == SubSeq(s, 1, PyIndex(k, Len(s)))

\* One step of the stable descending sort: x goes after every element whose
\* created_at is greater than or equal to its own.
RECURSIVE InsertNewestFirst(_, _)
InsertNewestFirst(sorted, x) ==
    IF sorted = <<>> THEN <<x>>
    ELSE IF Head(sorted).created_at >= x.created_at
         THEN <<Head(sorted)>> \o InsertNewestFirst(Tail(sorted), x)
         ELSE <<x>> \o sorted

\* The sort with the order reversed (oldest first): reverse=True forgotten
RECURSIVE SortOldestFirst(_)
SortOldestFirst(s) ==
    IF s = <<>> THEN <<>>
    ELSE LET rest == SortOldestFirst(Tail(s))
             RECURSIVE Ins(_)
             Ins(t) == IF t = <<>> THEN <<Head(s)>>
                       ELSE IF Head(t).created_at < Head(s).created_at
                            THEN <<Head(t)>> \o Ins(Tail(t))
                            ELSE <<Head(s)>> \o t
         IN Ins(rest)

\* The ascending sort followed by a reversal: newest first, but elements with
\* equal keys come out in the opposite of the order they had
SortThenReverse(s) ==
    LET up == SortOldestFirst(s)
    IN  [i \in 1..Len(up) |-> up[Len(up) + 1 - i]]

\* list.sort(key=lambda x: x['created_at'], reverse=True): stable, newest
\* first; elements with equal keys keep the order they had.
RECURSIVE SortNewestFirst(_)
SortNewestFirst(s) ==
    IF s = <<>> THEN <<>>
    ELSE InsertNewestFirst(SortNewestFirst(SubSeq(s, 1, Len(s) - 1)), s[Len(s)])

\* identify_snapshots_to_delete: sorts the list in place and returns the
\* slice past the first `retain` elements.
identify_snapshots_to_delete(snapshots, retain) ==
    LET sorted == SortNewestFirst(snapshots)
    IN  [snapshots |-> sorted, to_delete |-> PySliceFrom(sorted, retain)]

----------------------------------------------------------------------------
(* The variables of a part of the program that a specification leaves idle *)

\* The log file when os.path.exists(LOG_FILE_PATH) is false
NoFile == [exists |-> FALSE, lines |-> <<>>]

\* The log file with these lines
FileOf(lines) == [exists |-> TRUE, lines |-> lines]

RetentionIdle ==
    /\ fpc = "idle"
    /\ arg_snapshots = <<>>
    /\ arg_retain = 0
    /\ to_delete = <<>>
    /\ input0 = <<>>

SendIdle ==
    /\ message = <<>>
    /\ retries = 0
    /\ formatted_message = <<>>
    /\ warned = FALSE
    /\ attempt = 0
    /\ send_result = "none"
    /\ net = <<>>
    /\ posted = {}

NotifierIdle ==
    /\ npc = "idle"
    /\ log_file = NoFile
    /\ final_status_entries = <<>>
    /\ idx = 0
    /\ relay = <<>>
    /\ SendIdle

ManagerIdle ==
    /\ mpc = "idle"
    /\ configs = <<>>
    /\ servers = <<>>
    /\ hcloud_path = "unset"
    /\ exit_code = -1
    /\ sidx = 0
    /\ provider = <<>>
    /\ clock = 0
    /\ snapshot_id = <<>>
    /\ snapshot_name = <<>>
    /\ elapsed = 0
    /\ polls = 0
    /\ naps = 0
    /\ snapshots_to_delete = <<>>
    /\ del_idx = 0
    /\ total_snapshots = 0
    /\ cmds = <<>>
    /\ runlog = <<>>
    /\ faults = 0

\* The return value None, and a returned text
None == [some |-> FALSE, text |-> <<>>]
Some(text) == [some |-> TRUE, text |-> text]

CommandIdle ==
    /\ cpc = "idle"
    /\ arg_command = <<>>
    /\ arg_token = <<>>
    /\ ending = "none"
    /\ argv = <<>>
    /\ child_env = {}
    /\ environ = {}
    /\ logged = <<>>
    /\ ret_value = None

----------------------------------------------------------------------------
(* The retention function on bounded inputs *)

Times == 1..MaxTime

\* Every list of at most MaxSnaps snapshot records with distinct ids.
SnapshotLists ==
    UNION { { s \in [1..n -> [id : 1..n, created_at : Times]] :
                \A i, j \in 1..n : i # j => s[i].id # s[j].id } : n \in 0..MaxSnaps }

InitRetention ==
    /\ fpc = "call"
    /\ arg_snapshots \in SnapshotLists
    /\ arg_retain \in 0..MaxRetain
    /\ to_delete = <<>>
    /\ input0 = arg_snapshots
    /\ NotifierIdle
    /\ ManagerIdle
    /\ CommandIdle

Identify ==
    /\ fpc = "call"
    /\ LET r == identify_snapshots_to_delete(arg_snapshots, arg_retain)
       IN  /\ arg_snapshots' = r.snapshots
           /\ to_delete' = r.to_delete
    /\ fpc' = "returned"
    /\ UNCHANGED <<arg_retain, input0, notVars, mgrVars, cmdVars>>

NextRetention == Identify

SpecRetention == InitRetention /\ [][NextRetention]_vars

\* Every reordering of a list.
Orderings(s) ==
    { [i \in 1..Len(s) |-> s[f[i]]] :
        f \in { g \in [1..Len(s) -> 1..Len(s)] :
                  \A i, j \in 1..Len(s) : i # j => g[i] # g[j] } }

DistinctTimes(s) ==
    \A i, j \in 1..Len(s) : i # j => s[i].created_at # s[j].created_at

\* C1: for every retention count r >= 0 and every list of n snapshots the
\* call returns exactly max(0, n - r) snapshots, all of them snapshots of the
\* input and each one once; every returned snapshot is no newer than every
\* snapshot not returned; with distinct creation times the returned set is
\* the same for every ordering of the input; with r = 0 every snapshot is
\* returned.
C1_OldestBeyondRetention ==
    fpc = "returned" =>
        LET n == Len(input0)
            returned == Range(to_delete)
            kept == Range(input0) \ returned
        IN  /\ Len(to_delete) = Max(0, n - arg_retain)
            /\ Cardinality(returned) = Len(to_delete)
            /\ returned \subseteq Range(input0)
            /\ \A d \in returned : \A k \in kept : d.created_at <= k.created_at
            /\ DistinctTimes(input0) =>
                  \A q \in Orderings(input0) :
                      Range(identify_snapshots_to_delete(q, arg_retain).to_delete) = returned
            /\ arg_retain = 0 => returned = Range(input0)

\* C1 witness: three snapshots handed over oldest first with two of them to
\* keep: the call has returned the one oldest.
C1_Witness ==
    /\ fpc = "returned"
    /\ Len(input0) = 3
    /\ arg_retain = 2
    /\ DistinctTimes(input0)
    /\ input0[1].created_at < input0[2].created_at
    /\ input0[2].created_at < input0[3].created_at
    /\ to_delete = <<input0[1]>>

----------------------------------------------------------------------------
(* Text: a sequence of atoms.  An atom is one separator character (a       *)
(* space, a newline, '|', '-', a backquote) or a run of other characters   *)
(* taken as a unit.                                                         *)

SEP == <<" ", "|", " ">>        \* " | "
DASH == <<" ", "-", " ">>       \* " - "
Whitespace == {" ", "\n", "\t"}

\* str.find: the index of the leftmost occurrence of sub in s, 0 when there
\* is none.
Find(s, sub) ==
    LET hits == { i \in 1..(Len(s) - Len(sub) + 1) :
                    SubSeq(s, i, i + Len(sub) - 1) = sub }
    IN  IF hits = {} THEN 0
        ELSE CHOOSE i \in hits : \A j \in hits : i <= j

\* sub in s
Contains(s, sub) == Find(s, sub) # 0

\* str.split(sep, maxsplit) for a non-empty sep: cut at the leftmost
\* occurrence, go on after it; maxsplit = -1 cuts everywhere.
RECURSIVE SplitMax(_, _, _)
SplitMax(s, sep, maxsplit) ==
    LET i == Find(s, sep)
    IN  IF maxsplit = 0 \/ i = 0 THEN <<s>>
        ELSE <<SubSeq(s, 1, i - 1)>>
             \o SplitMax(SubSeq(s, i + Len(sep), Len(s)), sep, maxsplit - 1)

\* str.split(sep)
Split(s, sep) == SplitMax(s, sep, -1)

\* str.strip(): leading and trailing whitespace removed
RECURSIVE LStrip(_)
LStrip(s) == IF s # <<>> /\ Head(s) \in Whitespace THEN LStrip(Tail(s)) ELSE s
RECURSIVE RStrip(_)
RStrip(s) ==
    IF s # <<>> /\ s[Len(s)] \in Whitespace THEN RStrip(SubSeq(s, 1, Len(s) - 1)) ELSE s
Strip(s) == LStrip(RStrip(s))

\* sep.join(parts)
RECURSIVE Join(_, _)
Join(parts, sep) ==
    IF parts = <<>> THEN <<>>
    ELSE IF Len(parts) = 1 THEN parts[1]
    ELSE parts[1] \o sep \o Join(Tail(parts), sep)

----------------------------------------------------------------------------
(* log2telegram.py *)

DefaultRetries == 3

\* The backquote character, as an atom
BQ == "<backquote>"

\* One line of the formatted message: *Label:* and the value in backquotes
Labelled(label, value) == <<label, " ", BQ>> \o value \o <<BQ>>

\* The template of format_message applied to the eight parts.
Template(parts) ==
    <<"*FINAL_STATUS*">> \o <<"\n">>
    \o Labelled("*Script:*", parts[2]) \o <<"\n">>
    \o Labelled("*Server:*", parts[3]) \o <<"\n">>
    \o Labelled("*Status:*", parts[4]) \o <<"\n">>
    \o Labelled("*Hostname:*", parts[5]) \o <<"\n">>
    \o Labelled("*Timestamp:*", parts[6]) \o <<"\n">>
    \o Labelled("*Snapshot:*", parts[7]) \o <<"\n">>
    \o Labelled("*Total Snapshots:*", parts[8])

\* format_message with the field-count test dropped: every message is put
\* through the template when it has the parts for it.
format_message_no_check(raw_message) ==
    LET parts == Split(raw_message, SEP)
    IN  IF Len(parts) < 8
        THEN [text |-> raw_message, warning |-> TRUE]
        ELSE [text |-> Template(parts), warning |-> FALSE]

\* format_message(raw_message): the text returned and whether the warning
\* was logged.
format_message(raw_message) ==
    LET parts == Split(raw_message, SEP)
    IN  IF Len(parts) # 8
        THEN [text |-> raw_message, warning |-> TRUE]
        ELSE [text |-> Template(parts), warning |-> FALSE]

\* What one requests.post can end in: HTTP 200, another status code, or a
\* requests.exceptions.RequestException.
PostOutcomes == {"200", "non200", "exception"}

\* send_telegram_message, lines 73-75: format the message, enter the loop
\* 'for attempt in range(1, retries + 1)'; with no attempt to make the loop
\* is skipped and the call returns False.
SendBegin ==
    /\ npc = "send_call"
    /\ LET f == format_message(message)
       IN  /\ formatted_message' = f.text
           /\ warned' = f.warning
    /\ net' = <<>>
    /\ posted' = {}
    /\ IF retries >= 1
       THEN /\ attempt' = 1
            /\ npc' = "post"
            /\ send_result' = "none"
       ELSE /\ attempt' = 0
            /\ npc' = "returned"
            /\ send_result' = FALSE
    /\ UNCHANGED <<message, retries, logVars, retVars, cmdVars, mgrVars>>

\* The test of line 91 off by one: a sleep after the last attempt too
SleepsAfterAlways(a, r) == a <= r

\* Whether the retry loop sleeps after a failed attempt (line 91)
SleepsAfter(a, r) == a < r

\* Lines 76-91: one requests.post and what follows it.  200 returns True;
\* anything else is logged, and the loop either sleeps before the next
\* attempt or, after the last one, ends and the call returns False.
PostStep(outcome) ==
    /\ npc = "post"
    /\ net' = Append(net, outcome)
    /\ posted' = posted \cup {formatted_message}
    /\ IF outcome = "200"
       THEN /\ npc' = "returned"
            /\ send_result' = TRUE
       ELSE IF SleepsAfter(attempt, retries)
       THEN /\ npc' = "retry_sleep"
            /\ send_result' = "none"
       ELSE /\ npc' = "returned"
            /\ send_result' = FALSE
    /\ UNCHANGED <<message, retries, formatted_message, warned, attempt,
                   logVars, retVars, cmdVars, mgrVars>>

Post == \E outcome \in PostOutcomes : PostStep(outcome)

\* Lines 92-93 and 75: time.sleep(delay_between_retries), then the loop
\* takes its next value; past range(1, retries + 1) it ends and the call
\* returns False.
RetrySleep ==
    /\ npc = "retry_sleep"
    /\ net' = Append(net, "sleep")
    /\ attempt' = attempt + 1
    /\ npc' = IF attempt + 1 <= retries THEN "post" ELSE "returned"
    /\ send_result' = IF attempt + 1 <= retries THEN "none" ELSE FALSE
    /\ UNCHANGED <<message, retries, formatted_message, warned, posted,
                   logVars, retVars, cmdVars, mgrVars>>

----------------------------------------------------------------------------
(* send_telegram_message on bounded inputs *)

\* The texts a ' | '-separated field is drawn from: a plain one and one that
\* ends in a space and a bar.
FieldTexts == { <<"a">>, <<"b", " ", "|">> }

\* Raw messages: one to MaxFields fields joined by " | ", and three
\* written out.
ExampleStatus ==
    Join(<< <<"FINAL_STATUS">>, <<"mhsnapshots.py">>, <<"example.com">>,
            <<"SUCCESS">>, <<"hostname">>, <<"2024-12-02", " ", "13:32:34">>,
            <<"example.com-20241202133213">>,
            <<"3", " ", "snapshots", " ", "exist">> >>, SEP)
IncompleteStatus ==
    Join(<< <<"FINAL_STATUS">>, <<"incomplete">>, <<"entry">> >>, SEP)
UnspacedBars ==
    <<"a", "|", "b", "|", "c", "|", "d", "|", "e", "|", "f", "|", "g", "|", "h">>

RawMessages ==
    { Join(f, SEP) : f \in UNION { [1..n -> FieldTexts] : n \in 1..MaxFields } }
    \cup {ExampleStatus, IncompleteStatus, UnspacedBars}

InitSend ==
    /\ RetentionIdle
    /\ ManagerIdle
    /\ CommandIdle
    /\ npc = "send_call"
    /\ log_file = NoFile
    /\ final_status_entries = <<>>
    /\ idx = 0
    /\ relay = <<>>
    /\ message \in RawMessages
    /\ retries \in 0..MaxRetries
    /\ formatted_message = <<>>
    /\ warned = FALSE
    /\ attempt = 0
    /\ send_result = "none"
    /\ net = <<>>
    /\ posted = {}

NextSend == SendBegin \/ Post \/ RetrySleep

SpecSend == InitSend /\ [][NextSend]_vars

\* The POSTs of a history of send_telegram_message
Posts(h) == { i \in 1..Len(h) : h[i] # "sleep" }

\* C3: send_telegram_message(message, retries=R) makes exactly R POSTs when
\* every attempt ends in a non-200 response or a transport exception, sleeps
\* between consecutive attempts only (a sleep is always followed by another
\* POST, none comes before the first or after the last) and then returns
\* False; when an attempt returns 200 the call returns True at that attempt,
\* with no POST and no sleep after it.
C3_RetriesThenFalse ==
    /\ \A i \in 1..Len(net) : (net[i] = "sleep") <=> (i % 2 = 0)
    /\ \A i \in 1..Len(net) : net[i] = "200" => i = Len(net) /\ npc = "returned"
    /\ Cardinality(Posts(net)) <= retries
    /\ npc = "returned" =>
          /\ net # <<>> => net[Len(net)] # "sleep"
          /\ send_result = TRUE <=> (net # <<>> /\ net[Len(net)] = "200")
          /\ send_result = FALSE <=> (\A i \in 1..Len(net) : net[i] # "200")
          /\ send_result = FALSE =>
                /\ Cardinality(Posts(net)) = retries
                /\ Len(net) - Cardinality(Posts(net)) = Max(retries - 1, 0)
          /\ send_result = TRUE =>
                Len(net) - Cardinality(Posts(net)) = Cardinality(Posts(net)) - 1

\* C3 witness: three attempts, none of them a 200, two sleeps between them,
\* and the call has returned False.
C3_Witness ==
    /\ npc = "returned"
    /\ retries = 3
    /\ net = <<"non200", "sleep", "exception", "sleep", "non200">>
    /\ send_result = FALSE

FieldLabels ==
    <<"*Script:*", "*Server:*", "*Status:*", "*Hostname:*", "*Timestamp:*",
      "*Snapshot:*", "*Total Snapshots:*">>

\* C5: a raw status line that does not split into exactly 8 ' | '-delimited
\* fields is returned unchanged by format_message with a warning logged, and
\* send_telegram_message POSTs that unchanged text; for a line of exactly 8
\* fields the message has a heading line and then fields 2..8, in order,
\* labelled Script, Server, Status, Hostname, Timestamp, Snapshot, Total
\* Snapshots.
C5_MalformedRelayedVerbatim ==
    npc \in {"post", "retry_sleep", "returned"} =>
        LET parts == Split(message, SEP)
            lines == Split(formatted_message, <<"\n">>)
        IN  /\ Len(parts) # 8 =>
                /\ formatted_message = message
                /\ warned
            /\ Len(parts) = 8 =>
                /\ ~warned
                /\ Len(lines) = 8
                /\ lines[1] = <<"*FINAL_STATUS*">>
                /\ \A i \in 1..7 :
                      lines[i + 1] = <<FieldLabels[i], " ", BQ>> \o parts[i + 1] \o <<BQ>>
            /\ posted \subseteq {formatted_message}
            /\ net # <<>> => posted = {formatted_message}
            /\ (npc = "returned" /\ retries >= 1) => posted = {formatted_message}

\* C5 witness: a line of nine fields has been POSTed as it came, with the
\* warning logged.
C5_Witness ==
    /\ npc = "returned"
    /\ Len(Split(message, SEP)) = 9
    /\ posted = {message}
    /\ warned

----------------------------------------------------------------------------
(* process_log *)

\* str.upper() on the atoms of the model that have letters to fold
Upper(atom) ==
    IF atom \in {"FINAL_STATUS", "final_status", "Final_Status"}
    THEN "FINAL_STATUS" ELSE atom

\* FINAL_STATUS_PATTERN.match(m): re.compile(r'^FINAL_STATUS\s*\|',
\* re.IGNORECASE) matched at the start of m.
MatchesFinalStatus(m) ==
    \E n \in 2..Len(m) :
        /\ Upper(m[1]) = "FINAL_STATUS"
        /\ \A j \in 2..(n - 1) : m[j] \in Whitespace
        /\ m[n] = "|"

\* The scan that keeps every line with a third part, whatever it starts with
RECURSIVE ScanLinesNoPattern(_, _)
ScanLinesNoPattern(lines, line_number) ==
    IF lines = <<>> THEN <<>>
    ELSE LET line == Strip(Head(lines))
             rest == ScanLinesNoPattern(Tail(lines), line_number + 1)
             split_line == SplitMax(line, DASH, 2)
         IN  IF ~Contains(line, DASH) THEN rest
             ELSE IF Len(split_line) < 3 THEN rest
             ELSE <<[line_number |-> line_number, message |-> split_line[3]]>> \o rest

\* Lines 149-170: the loop over the lines, from line_number on; the entries
\* it appends to final_status_entries.
RECURSIVE ScanLines(_, _)
ScanLines(lines, line_number) ==
    IF lines = <<>> THEN <<>>
    ELSE LET line == Strip(Head(lines))
             rest == ScanLines(Tail(lines), line_number + 1)
             split_line == SplitMax(line, DASH, 2)
         IN  IF ~Contains(line, DASH) THEN rest
             ELSE IF Len(split_line) < 3 THEN rest
             ELSE IF MatchesFinalStatus(split_line[3])
                  THEN <<[line_number |-> line_number, message |-> split_line[3]]>> \o rest
                  ELSE rest

\* A history event of process_log
Ev(op, arg) == [op |-> op, arg |-> arg]

\* Lines 136-172 and 183-185: no file, or no lines, or no entry found: the
\* call returns; otherwise the loop over the entries starts.
Scan ==
    /\ npc = "scan"
    /\ IF ~log_file.exists \/ log_file.lines = <<>>
       THEN /\ final_status_entries' = <<>>
            /\ npc' = "done"
            /\ idx' = 0
       ELSE /\ final_status_entries' = ScanLines(log_file.lines, 1)
            /\ npc' = IF final_status_entries' # <<>> THEN "loop" ELSE "done"
            /\ idx' = IF final_status_entries' # <<>> THEN 1 ELSE 0
    /\ UNCHANGED <<log_file, relay, sendVars, retVars, cmdVars, mgrVars>>

\* Lines 174-176: the loop body calls send_telegram_message(message), with
\* the default retries.
ProcessEntry ==
    /\ npc = "loop"
    /\ relay' = Append(relay, Ev("send", final_status_entries[idx].line_number))
    /\ message' = final_status_entries[idx].message
    /\ retries' = DefaultRetries
    /\ npc' = "send_call"
    /\ UNCHANGED <<log_file, final_status_entries, idx, formatted_message, warned,
                   attempt, send_result, net, posted, retVars, cmdVars, mgrVars>>

\* The test of line 179 off by one: a sleep after the last entry too
DelayAfterEvery(i, n) == i <= n

\* Whether the loop sleeps after the entry at position i of n (line 179)
DelayAfter(i, n) == i < n

\* Lines 176-179: the call has returned; a failure is logged; then either
\* the sleep before the next entry or the end of the loop.
AfterSend ==
    /\ npc = "returned"
    /\ relay' = Append(relay, Ev("result", IF send_result = TRUE THEN 1 ELSE 0))
    /\ npc' = IF DelayAfter(idx, Len(final_status_entries)) THEN "msg_sleep" ELSE "done"
    /\ UNCHANGED <<log_file, final_status_entries, idx, sendVars, retVars, cmdVars, mgrVars>>

\* Lines 180-181 and 174: time.sleep(delay_between_messages), then the loop
\* takes the next entry, if there is one.
MsgSleep ==
    /\ npc = "msg_sleep"
    /\ relay' = Append(relay, Ev("sleep", 0))
    /\ idx' = idx + 1
    /\ npc' = IF idx + 1 <= Len(final_status_entries) THEN "loop" ELSE "done"
    /\ UNCHANGED <<log_file, final_status_entries, sendVars, retVars, cmdVars, mgrVars>>

----------------------------------------------------------------------------
(* process_log on bounded log files *)

LogStamp == <<"2024-12-02", " ", "13:32:34,000">>

\* The log line logging.Formatter('%(asctime)s - %(levelname)s - %(message)s')
\* writes for a message
LogLine(level, msg) == LogStamp \o DASH \o <<level>> \o DASH \o msg \o <<"\n">>

StatusMessage1 ==
    Join(<< <<"FINAL_STATUS">>, <<"mhsnapshots.py">>, <<"server1">>, <<"SUCCESS">>,
            <<"host">>, <<"2024-12-02", " ", "13:32:34">>, <<"snap1">>,
            <<"2", " ", "snapshots", " ", "exist">> >>, SEP)
StatusMessage2 ==
    Join(<< <<"FINAL_STATUS">>, <<"mhsnapshots.py">>, <<"server2">>, <<"FAILURE">>,
            <<"host">>, <<"2024-12-02", " ", "13:32:35">>, <<"none">>,
            <<"1", " ", "snapshots", " ", "exist">> >>, SEP)
\* the tag in lower case, no space before the bar, three fields only
StatusMessageShort == <<"final_status", "|", " ", "short", " ", "|", " ", "entry">>

\* Lines that hold a Status Record
QualifyingLines ==
    { LogLine("INFO", StatusMessage1), LogLine("INFO", StatusMessage2),
      LogLine("INFO", StatusMessageShort) }

\* Lines that hold none: another message, a line with no ' - ' in it, a line
\* with one ' - ' only, a message with the tag after its start, a message
\* with the tag and no bar
OtherLines ==
    { LogLine("INFO", <<"Some", " ", "other", " ", "log", " ", "entry">>),
      <<"Traceback", " ", "(most", " ", "recent", " ", "call", " ", "last):", "\n">>,
      LogStamp \o DASH \o StatusMessage1 \o <<"\n">>,
      LogLine("DEBUG", <<"Processed", " ">> \o StatusMessage1),
      LogLine("INFO", <<"FINAL_STATUS", " ", "written">>) }

LogFiles ==
    {NoFile} \cup
    { FileOf(l) : l \in UNION { [1..n -> QualifyingLines \cup OtherLines] : n \in 0..MaxLines } }

InitNotifier ==
    /\ RetentionIdle
    /\ ManagerIdle
    /\ CommandIdle
    /\ SendIdle
    /\ npc = "scan"
    /\ log_file \in LogFiles
    /\ final_status_entries = <<>>
    /\ idx = 0
    /\ relay = <<>>

NextNotifier ==
    \/ Scan
    \/ ProcessEntry
    \/ SendBegin
    \/ Post
    \/ RetrySleep
    \/ AfterSend
    \/ MsgSleep

SpecNotifier == InitNotifier /\ [][NextNotifier]_vars

\* The positions of the Status Record lines of a log file
StatusLinesOf(f) == { i \in 1..Len(f.lines) : f.lines[i] \in QualifyingLines }

\* The events of one kind in a history
EventsOf(h, op) == { i \in 1..Len(h) : h[i].op = op }

\* C4: for a log file with k Status Record lines process_log calls
\* send_telegram_message exactly k times, once per such line and in file
\* order, whether the sends return success or failure; the inter-message
\* delay is slept once between consecutive sends (k - 1 sleeps for k >= 1),
\* never before the first send and never after the last.
C4_OneSendPerRecord ==
    LET k == Cardinality(StatusLinesOf(log_file))
        sends == EventsOf(relay, "send")
        sleeps == EventsOf(relay, "sleep")
    IN  /\ \A i \in sleeps :
              /\ \E j \in sends : j < i
              /\ npc = "done" => \E j \in sends : j > i
              /\ \A i2 \in sleeps : i2 > i => \E j \in sends : i < j /\ j < i2
        /\ \A i, j \in sends : i < j =>
              /\ relay[i].arg < relay[j].arg
              /\ \E s \in sleeps : i < s /\ s < j
        /\ \A i \in sends : relay[i].arg \in StatusLinesOf(log_file)
        /\ npc = "done" =>
              /\ Cardinality(sends) = k
              /\ Cardinality(sleeps) = Max(k - 1, 0)
              /\ { relay[i].arg : i \in sends } = StatusLinesOf(log_file)

\* C4 witness: three Status Record lines, the first send failed, the second
\* succeeded, all three were sent with two sleeps between them.
C4_Witness ==
    /\ npc = "done"
    /\ Cardinality(StatusLinesOf(log_file)) = 3
    /\ [i \in 1..Len(relay) |-> relay[i].op]
         = <<"send", "result", "sleep", "send", "result", "sleep", "send", "result">>
    /\ relay[2].arg = 0
    /\ relay[5].arg = 1

----------------------------------------------------------------------------
(* mhsnapshots.py: load_configs and get_hcloud_path *)

required_fields == {"id", "name", "api_token", "retain_last_snapshots"}

\* The values a YAML file can give retain_last_snapshots: an integer, a
\* string, a float (n + 0.5 here, n >= 0) or null.
IntVal(n) == [t |-> "int", n |-> n, s |-> <<>>]
StrVal(s) == [t |-> "str", n |-> 0, s |-> s]
FloatVal(n) == [t |-> "float", n |-> n, s |-> <<>>]
NullVal == [t |-> "null", n |-> 0, s |-> <<>>]

Digits == <<"0", "1", "2", "3", "4", "5", "6", "7", "8", "9">>
IsDigit(c) == \E d \in 1..10 : Digits[d] = c
DigitValue(c) == (CHOOSE d \in 1..10 : Digits[d] = c) - 1

RECURSIVE DecimalValue(_)
DecimalValue(s) ==
    IF s = <<>> THEN 0
    ELSE 10 * DecimalValue(SubSeq(s, 1, Len(s) - 1)) + DigitValue(s[Len(s)])

\* int(v): an int is itself, a float is truncated, a string of digits is
\* read, another string raises ValueError, None raises TypeError.
PyInt(v) ==
    CASE v.t = "int" -> [exc |-> "none", n |-> v.n]
      [] v.t = "float" -> [exc |-> "none", n |-> v.n]
      [] v.t = "str" ->
            IF v.s # <<>> /\ \A i \in 1..Len(v.s) : IsDigit(v.s[i])
            THEN [exc |-> "none", n |-> DecimalValue(v.s)]
            ELSE [exc |-> "ValueError", n |-> 0]
      [] OTHER -> [exc |-> "TypeError", n |-> 0]

\* The text of a server's name, and its token
NameOf(i) == <<"srv", ToString(i)>>
TokenOf(i) == <<"token", ToString(i)>>

\* ServerConfig
ServerConfig(id, name, api_token, retain) ==
    [id |-> id, name |-> name, api_token |-> api_token,
     retain_last_snapshots |-> retain]

\* A configuration file: whether it exists, how yaml.safe_load ends on it
\* ("ok", "error" for a YAMLError, "empty" for a file that loads as None),
\* whether it has the 'server' key, the fields under it, and the value of
\* retain_last_snapshots.
ConfigFile(i, exists, yaml, has_server, fields, retain) ==
    [id |-> i, exists |-> exists, yaml |-> yaml, has_server |-> has_server,
     fields |-> fields, retain |-> retain]

Loaded(srvs) == [outcome |-> "ok", servers |-> srvs]
ErrorExit == [outcome |-> "error_exit", servers |-> <<>>]
Traceback == [outcome |-> "traceback", servers |-> <<>>]

\* Lines 51-74: one pass of the loop of load_configs.
LoadOne(f) ==
    IF ~f.exists THEN ErrorExit
    ELSE IF f.yaml = "error" THEN ErrorExit
    ELSE IF f.yaml = "empty" THEN Traceback
    ELSE IF ~f.has_server THEN ErrorExit
    ELSE IF \E field \in required_fields : field \notin f.fields THEN ErrorExit
    ELSE LET r == PyInt(f.retain)
         IN  IF r.exc = "ValueError" THEN ErrorExit
             ELSE IF r.exc = "TypeError" THEN Traceback
             ELSE Loaded(<<ServerConfig(f.id, NameOf(f.id), TokenOf(f.id), r.n)>>)

RECURSIVE LoadAll(_)
LoadAll(paths) ==
    IF paths = <<>> THEN Loaded(<<>>)
    ELSE LET one == LoadOne(Head(paths))
         IN  IF one.outcome # "ok" THEN one
             ELSE LET rest == LoadAll(Tail(paths))
                  IN  IF rest.outcome # "ok" THEN rest
                      ELSE Loaded(one.servers \o rest.servers)

\* load_configs: the loop, then the test for an empty list.
load_configs(paths) ==
    LET r == LoadAll(paths)
    IN  IF r.outcome = "ok" /\ r.servers = <<>> THEN ErrorExit ELSE r

runVars == <<sidx, provider, clock, snapshot_id, snapshot_name, elapsed, polls, naps,
             snapshots_to_delete, del_idx, total_snapshots, cmds, runlog, faults>>

\* __init__, line 43: self.servers = self.load_configs().  error_exit ends
\* the process with sys.exit(1); an exception nobody catches ends it with a
\* traceback and status 1.
LoadConfigs ==
    /\ mpc = "load"
    /\ LET r == load_configs(configs)
       IN  IF r.outcome = "ok"
           THEN /\ servers' = r.servers
                /\ mpc' = "hcloud"
                /\ exit_code' = exit_code
           ELSE /\ servers' = <<>>
                /\ mpc' = "exited"
                /\ exit_code' = 1
    /\ UNCHANGED <<configs, hcloud_path, runVars, retVars, cmdVars, notVars>>

\* __init__, lines 44-46, and main, line 339: the executable is found or
\* not; found, run() starts on the first server.
GetHcloudPath ==
    /\ mpc = "hcloud"
    /\ \E found \in BOOLEAN :
          IF found
          THEN /\ hcloud_path' = "found"
               /\ mpc' = "start"
               /\ sidx' = 1
               /\ exit_code' = exit_code
          ELSE /\ hcloud_path' = "none"
               /\ mpc' = "exited"
               /\ sidx' = sidx
               /\ exit_code' = 1
    /\ UNCHANGED <<configs, servers, provider, clock, snapshot_id, snapshot_name,
                   elapsed, polls, naps, snapshots_to_delete, del_idx,
                   total_snapshots, cmds, runlog, faults, retVars, cmdVars, notVars>>

----------------------------------------------------------------------------
(* mhsnapshots.py: the provider and the commands run against it *)

DELAY_BETWEEN_SERVERS == 5
DefaultMaxWaitTime == 300
PollInterval == 10

\* A provider command the manager issued, with how it ended
Cmd(op, arg, out) == [op |-> op, arg |-> arg, out |-> out]

\* Something run() did: "start" of a server, "status" (the Status Record),
\* "sleep" (the inter-server delay) or "caught" (the except clause).
RunEv(op, server) ==
    [op |-> op, server |-> server, status |-> "", name |-> <<>>, total |-> 0,
     secs |-> 0]
StatusEv(server, status, name, total) ==
    [op |-> "status", server |-> server, status |-> status, name |-> name,
     total |-> total, secs |-> 0]
SleepEv(server, secs) ==
    [op |-> "sleep", server |-> server, status |-> "", name |-> <<>>,
     total |-> 0, secs |-> secs]

\* How run_command ends: "ok" (exit code 0, the expected output), "none"
\* (CalledProcessError: it returns None), "oserror" (subprocess.run raises
\* another exception, which run_command lets through).  A listing may also
\* come back empty, as text that is no JSON ("garbage": JSONDecodeError,
\* caught) or as JSON of another shape ("badjson": the code that reads it
\* raises).
ListOutcomes == {"ok", "none", "empty", "garbage", "badjson", "oserror"}
CreateOutcomes == {"ok", "onetoken", "empty", "none", "oserror"}
DescribeOutcomes == {"available", "creating", "none", "garbage", "badjson",
                     "oserror"}
DeleteOutcomes == {"ok", "none", "oserror"}

Raises(o) == o \in {"badjson", "oserror"}

\* The environment spends one of its failures on an outcome that is not the
\* expected one.
CanSpend(o, expected) == o \in expected \/ faults > 0
Spent(o, expected) == IF o \in expected THEN faults ELSE faults - 1

\* The listing taken whole, without the test of line 179
AllSnapshots(listing, server) ==
    [i \in 1..Len(listing) |->
        [id |-> <<ToString(listing[i].id)>>, created_at |-> listing[i].created]]

\* Lines 177-186 of get_snapshots: the records of the listing created from
\* this server, as {"id": str, "created_at": time}.
OwnSnapshots(listing, server) ==
    LET mine == SelectSeq(listing, LAMBDA s : s.from = server.id)
    IN  [i \in 1..Len(mine) |->
            [id |-> <<ToString(mine[i].id)>>, created_at |-> mine[i].created]]

\* A listing that leaves out the snapshot whose wait gave up
get_snapshots_settled(listing, server, o) ==
    IF o = "ok"
    THEN SelectSeq(OwnSnapshots(listing, server),
                   LAMBDA s : snapshot_name # <<>> \/ s.id # snapshot_id)
    ELSE <<>>

\* get_snapshots, when nothing is raised
get_snapshots(listing, server, o) ==
    IF o = "ok" THEN OwnSnapshots(listing, server) ELSE <<>>

\* The standard output of create-image
CreateOutput(o, id, server) ==
    CASE o = "ok" -> <<"Image", " ", ToString(id), " ", "created", " ", "from",
                       " ", "Server", " ", ToString(server.id)>>
      [] o = "onetoken" -> <<"done">>
      [] OTHER -> <<>>

\* str.split(): the runs of non-whitespace characters
RECURSIVE SplitWhitespace(_)
SplitWhitespace(s) ==
    IF s = <<>> THEN <<>>
    ELSE IF s[1] \in Whitespace THEN SplitWhitespace(Tail(s))
    ELSE LET n == IF \E i \in 1..Len(s) : s[i] \in Whitespace
                  THEN (CHOOSE i \in 1..Len(s) :
                           /\ s[i] \in Whitespace
                           /\ \A j \in 1..(i - 1) : s[j] \notin Whitespace) - 1
                  ELSE Len(s)
         IN  <<SubSeq(s, 1, n)>> \o SplitWhitespace(SubSeq(s, n + 1, Len(s)))

\* Line 228: snapshot_name = f"{server.name}-{timestamp}"
NewSnapshotName(server) == server.name \o <<"-", "20241202133213">>

\* The provider after a delete command that succeeded
Without(listing, id) == SelectSeq(listing, LAMBDA s : <<ToString(s.id)>> # id)

\* run(), lines 305-312: where the loop goes when the work on server i of n
\* has ended in an exception (the except clause only logs).
AbortRun(i, n) == [pc |-> "done", sidx |-> i]
\* run() without its try: the exception ends the process
EscapesRun(i, n) == [pc |-> "exited", sidx |-> i]
AfterException(i, n) ==
    IF i < n THEN [pc |-> "start", sidx |-> i + 1] ELSE [pc |-> "done", sidx |-> i]

\* An exception leaves manage_snapshots_for_server and reaches run().
Caught(ev) ==
    /\ cmds' = Append(cmds, ev)
    /\ runlog' = Append(runlog, RunEv("caught", sidx))
    /\ mpc' = AfterException(sidx, Len(servers)).pc
    /\ sidx' = AfterException(sidx, Len(servers)).sidx

cfgVars == <<configs, servers, hcloud_path, exit_code>>
waitVars == <<elapsed, polls, naps>>

Server == servers[sidx]

\* The id the provider gives the next snapshot
NewId == MaxSnaps + clock

\* run(), line 305-307, and manage_snapshots_for_server, lines 264-265
StartServer ==
    /\ mpc = "start"
    /\ runlog' = Append(runlog, RunEv("start", sidx))
    /\ cmds' = <<>>
    /\ snapshot_id' = <<>>
    /\ snapshot_name' = <<>>
    /\ elapsed' = 0 /\ polls' = 0 /\ naps' = 0
    /\ snapshots_to_delete' = <<>>
    /\ del_idx' = 0
    /\ total_snapshots' = 0
    /\ mpc' = "list1"
    /\ UNCHANGED <<cfgVars, sidx, provider, clock, faults, retVars, cmdVars, notVars>>

\* manage_snapshots_for_server, lines 268-269: the first listing
List1 ==
    /\ mpc = "list1"
    /\ \E o \in ListOutcomes :
          /\ CanSpend(o, {"ok"})
          /\ faults' = Spent(o, {"ok"})
          /\ IF Raises(o)
             THEN Caught(Cmd("list", <<>>, o))
             ELSE /\ cmds' = Append(cmds, Cmd("list", <<>>, o))
                  /\ mpc' = "create"
                  /\ UNCHANGED <<sidx, runlog>>
    /\ UNCHANGED <<cfgVars, provider, clock, snapshot_id, snapshot_name, waitVars,
                   snapshots_to_delete, del_idx, total_snapshots, retVars, cmdVars, notVars>>

\* create_snapshot, lines 227-246, up to the call of wait_for_snapshot_ready.
\* A create command that exits with code 0 has made a snapshot.
Create ==
    /\ mpc = "create"
    /\ \E o \in CreateOutcomes :
          /\ CanSpend(o, {"ok"})
          /\ faults' = Spent(o, {"ok"})
          /\ IF o \in {"ok", "onetoken", "empty"}
             THEN /\ provider' = Append(provider,
                        [id |-> NewId, created |-> clock, from |-> Server.id])
                  /\ clock' = clock + 1
             ELSE UNCHANGED <<provider, clock>>
          /\ IF Raises(o)
             THEN /\ Caught(Cmd("create", <<>>, o))
                  /\ UNCHANGED <<snapshot_id, snapshot_name>>
             ELSE LET result == CreateOutput(o, NewId, Server)
                      tokens == SplitWhitespace(result)
                  IN  /\ cmds' = Append(cmds, Cmd("create", <<>>, o))
                      /\ UNCHANGED <<sidx, runlog>>
                      /\ IF o # "none" /\ result # <<>> /\ Len(tokens) >= 2
                         THEN /\ snapshot_id' = tokens[2]
                              /\ mpc' = "poll"
                         ELSE /\ snapshot_id' = <<>>
                              /\ mpc' = "list2"
                      /\ snapshot_name' = <<>>
    /\ UNCHANGED <<cfgVars, waitVars, snapshots_to_delete, del_idx,
                   total_snapshots, retVars, cmdVars, notVars>>

\* A describe command is noted once per run of equal outcomes.
Noted(history, ev) ==
    IF history # <<>> /\ history[Len(history)] = ev THEN history
    ELSE Append(history, ev)

\* wait_for_snapshot_ready, lines 209-221: one describe command of the loop.
\* The command returns at once, or (late) only after the maximum wait.
Poll ==
    /\ mpc = "poll"
    /\ \E o \in DescribeOutcomes, late \in BOOLEAN :
          /\ IF late THEN faults > 0 ELSE CanSpend(o, {"available", "creating"})
          /\ faults' = IF late THEN faults - 1 ELSE Spent(o, {"available", "creating"})
          /\ polls' = polls + 1
          /\ elapsed' = IF late THEN elapsed + DefaultMaxWaitTime ELSE elapsed
          /\ IF Raises(o)
             THEN /\ Caught(Cmd("describe", snapshot_id, o))
                  /\ UNCHANGED snapshot_name
             ELSE /\ cmds' = Noted(cmds, Cmd("describe", snapshot_id, o))
                  /\ UNCHANGED <<sidx, runlog>>
                  /\ IF o = "available"
                     THEN /\ snapshot_name' = NewSnapshotName(Server)
                          /\ mpc' = "list2"
                     ELSE /\ snapshot_name' = <<>>
                          /\ mpc' = "poll_sleep"
    /\ UNCHANGED <<cfgVars, provider, clock, snapshot_id, naps,
                   snapshots_to_delete, del_idx, total_snapshots, retVars, cmdVars, notVars>>

\* wait_for_snapshot_ready, lines 222 and 208: time.sleep(10), then the test
\* of the loop; lines 223-224 and 237-239 when the time is up.
PollSleep ==
    /\ mpc = "poll_sleep"
    /\ naps' = naps + 1
    /\ elapsed' = elapsed + PollInterval
    /\ mpc' = IF elapsed + PollInterval < DefaultMaxWaitTime THEN "poll" ELSE "list2"
    /\ UNCHANGED <<cfgVars, sidx, provider, clock, snapshot_id, snapshot_name, polls,
                   snapshots_to_delete, del_idx, total_snapshots, cmds, runlog,
                   faults, retVars, cmdVars, notVars>>

\* Lines 285-289: delete_snapshots is called for a list that is not empty;
\* the third listing follows.
SkipFinalListing(candidates) == IF candidates # <<>> THEN "delete" ELSE "status"
AfterSecondListing(candidates) == IF candidates # <<>> THEN "delete" ELSE "list3"

\* manage_snapshots_for_server, lines 275-289: the second listing, the sort
\* and the two slices.  The locals of the wait are gone by now.
List2 ==
    /\ mpc = "list2"
    /\ \E o \in ListOutcomes :
          /\ CanSpend(o, {"ok"})
          /\ faults' = Spent(o, {"ok"})
          /\ IF Raises(o)
             THEN /\ Caught(Cmd("list", <<>>, o))
                  /\ UNCHANGED <<snapshots_to_delete, del_idx>>
             ELSE LET updated_snapshots ==
                          SortNewestFirst(get_snapshots(provider, Server, o))
                      candidates ==
                          PySliceFrom(updated_snapshots, Server.retain_last_snapshots)
                  IN  /\ cmds' = Append(cmds, Cmd("list", <<>>, o))
                      /\ snapshots_to_delete' = candidates
                      /\ del_idx' = IF candidates # <<>> THEN 1 ELSE 0
                      /\ mpc' = AfterSecondListing(candidates)
                      /\ UNCHANGED <<sidx, runlog>>
    /\ elapsed' = 0 /\ polls' = 0 /\ naps' = 0
    /\ UNCHANGED <<cfgVars, provider, clock, snapshot_id, snapshot_name,
                   total_snapshots, retVars, cmdVars, notVars>>

\* delete_snapshots, lines 249-255: one pass of the loop
Delete ==
    /\ mpc = "delete"
    /\ LET snap == snapshots_to_delete[del_idx]
       IN  \E o \in DeleteOutcomes :
              /\ CanSpend(o, {"ok"})
              /\ faults' = Spent(o, {"ok"})
              /\ provider' = IF o = "ok" THEN Without(provider, snap.id) ELSE provider
              /\ IF Raises(o)
                 THEN /\ Caught(Cmd("delete", snap.id, o))
                      /\ UNCHANGED del_idx
                 ELSE /\ cmds' = Append(cmds, Cmd("delete", snap.id, o))
                      /\ del_idx' = del_idx + 1
                      /\ mpc' = IF del_idx < Len(snapshots_to_delete)
                                THEN "delete" ELSE "list3"
                      /\ UNCHANGED <<sidx, runlog>>
    /\ UNCHANGED <<cfgVars, clock, snapshot_id, snapshot_name, waitVars,
                   snapshots_to_delete, total_snapshots, retVars, cmdVars, notVars>>

\* manage_snapshots_for_server, lines 291-293: the third listing
List3 ==
    /\ mpc = "list3"
    /\ \E o \in ListOutcomes :
          /\ CanSpend(o, {"ok"})
          /\ faults' = Spent(o, {"ok"})
          /\ IF Raises(o)
             THEN /\ Caught(Cmd("list", <<>>, o))
                  /\ UNCHANGED total_snapshots
             ELSE /\ cmds' = Append(cmds, Cmd("list", <<>>, o))
                  /\ total_snapshots' = Len(get_snapshots(provider, Server, o))
                  /\ mpc' = "status"
                  /\ UNCHANGED <<sidx, runlog>>
    /\ UNCHANGED <<cfgVars, provider, clock, snapshot_id, snapshot_name, waitVars,
                   snapshots_to_delete, del_idx, retVars, cmdVars, notVars>>

\* Lines 295-299: the status and the name of the Status Record
AlwaysSuccess(name) == "SUCCESS"
StatusOf(name) == IF name # <<>> THEN "SUCCESS" ELSE "FAILURE"
NameOrNone(name) == IF name # <<>> THEN name ELSE <<"none">>

\* run(), line 307: the delay follows every server but the last.
AfterServer(i, n) == IF i < n THEN "delay" ELSE "done"

\* manage_snapshots_for_server, lines 295-302, and write_final_status
WriteStatus ==
    /\ mpc = "status"
    /\ runlog' = Append(runlog, StatusEv(sidx, StatusOf(snapshot_name),
                                         NameOrNone(snapshot_name), total_snapshots))
    /\ cmds' = Append(cmds, Cmd("status", <<>>, "ok"))
    /\ mpc' = AfterServer(sidx, Len(servers))
    /\ UNCHANGED <<cfgVars, sidx, provider, clock, snapshot_id, snapshot_name,
                   waitVars, snapshots_to_delete, del_idx, total_snapshots, faults,
                   retVars, cmdVars, notVars>>

\* run(), lines 307-309: time.sleep(DELAY_BETWEEN_SERVERS), then the next
\* server.
DelaySleep ==
    /\ mpc = "delay"
    /\ runlog' = Append(runlog, SleepEv(sidx, DELAY_BETWEEN_SERVERS))
    /\ sidx' = sidx + 1
    /\ mpc' = "start"
    /\ UNCHANGED <<cfgVars, provider, clock, snapshot_id, snapshot_name, waitVars,
                   snapshots_to_delete, del_idx, total_snapshots, cmds, faults,
                   retVars, cmdVars, notVars>>

----------------------------------------------------------------------------
(* The manager: main() over bounded configuration files and providers *)

MaxServers == 2     \* configuration files on the command line
MaxFaults == 2      \* outcomes other than the expected one, per run

\* A configuration file with nothing wrong
Good(i, retain) == ConfigFile(i, TRUE, "ok", TRUE, required_fields, retain)

\* The retention counts load_configs takes: an integer (negative too), a
\* string of digits, a float
Retentions == {IntVal(1), IntVal(-1), StrVal(<<"2">>), FloatVal(1)}

\* A configuration file with one thing wrong
Defective(i) ==
    {ConfigFile(i, FALSE, "ok", TRUE, required_fields, IntVal(1)),
     ConfigFile(i, TRUE, "error", TRUE, required_fields, IntVal(1)),
     ConfigFile(i, TRUE, "empty", TRUE, required_fields, IntVal(1)),
     ConfigFile(i, TRUE, "ok", FALSE, required_fields, IntVal(1)),
     Good(i, StrVal(<<"x">>)),
     Good(i, NullVal)}
    \cup {ConfigFile(i, TRUE, "ok", TRUE, required_fields \ {field}, IntVal(1)) :
             field \in required_fields}

ConfigVariants(i) == {Good(i, r) : r \in Retentions} \cup Defective(i)

ConfigLists ==
    UNION {{c \in [1..n -> UNION {ConfigVariants(i) : i \in 1..n}] :
               \A i \in 1..n : c[i].id = i} : n \in 1..MaxServers}

\* What the provider holds at the start: at most n snapshots, each created
\* from one of the owners at one of the times, with ids 1, 2, ...
Providers(n, owners, times) ==
    UNION {{p \in [1..k -> [id : 1..k, created : times, from : owners]] :
               \A i \in 1..k : p[i].id = i} : k \in 0..n}

RunIdle ==
    /\ snapshot_id = <<>>
    /\ snapshot_name = <<>>
    /\ elapsed = 0 /\ polls = 0 /\ naps = 0
    /\ snapshots_to_delete = <<>>
    /\ del_idx = 0
    /\ total_snapshots = 0
    /\ cmds = <<>>
    /\ runlog = <<>>

Init ==
    /\ RetentionIdle
    /\ NotifierIdle
    /\ CommandIdle
    /\ mpc = "load"
    /\ configs \in ConfigLists
    /\ servers = <<>>
    /\ hcloud_path = "unset"
    /\ exit_code = -1
    /\ sidx = 0
    /\ provider \in Providers(1, 1..MaxServers, {1})
    /\ clock = MaxTime + 1
    /\ faults = MaxFaults
    /\ RunIdle

Next ==
    \/ LoadConfigs
    \/ GetHcloudPath
    \/ StartServer
    \/ List1
    \/ Create
    \/ Poll
    \/ PollSleep
    \/ List2
    \/ Delete
    \/ List3
    \/ WriteStatus
    \/ DelaySleep

Spec == Init /\ [][Next]_vars

----------------------------------------------------------------------------
(* The manager on one server: manage_snapshots_for_server over bounded      *)
(* providers, retention counts and failures                                 *)

OtherServer == 2    \* the id of a server that is not in the configuration
MaxServerFaults == 1    \* outcomes other than the expected one, per run

InitServer ==
    /\ RetentionIdle
    /\ NotifierIdle
    /\ CommandIdle
    /\ mpc = "start"
    /\ \E r \in 0..MaxRetain :
          /\ configs = <<Good(1, IntVal(r))>>
          /\ servers = load_configs(configs).servers
    /\ hcloud_path = "found"
    /\ exit_code = -1
    /\ sidx = 1
    /\ provider \in Providers(MaxSnaps, {1, OtherServer}, 1..MaxTime)
    /\ clock = MaxTime + 1
    /\ faults = MaxServerFaults
    /\ RunIdle

NextServer ==
    \/ StartServer
    \/ List1
    \/ Create
    \/ Poll
    \/ PollSleep
    \/ List2
    \/ Delete
    \/ List3
    \/ WriteStatus

SpecServer == InitServer /\ [][NextServer]_vars

----------------------------------------------------------------------------
(* Properties of the manager *)

OfOp(history, op) == SelectSeq(history, LAMBDA e : e.op = op)
Last(history) == history[Len(history)]

\* A retention count that denotes an integer: an integer, or its digits
DenotesInteger(v) == v.t = "int" \/ (v.t = "str" /\ PyInt(v).exc = "none")

\* The defects of a configuration file that the contract lists
ListedDefect(f) ==
    \/ ~f.exists
    \/ f.fields # required_fields
    \/ ~DenotesInteger(f.retain)

\* C2: when a configuration file is missing, lacks a required field or has a
\* retention count that is not an integer, or when hcloud is not found, the
\* manager exits with a non-zero status and never starts on a server: no
\* provider command is issued.
C2_BadInputExitsBeforeAnyCommand ==
    ((\E i \in 1..Len(configs) : ListedDefect(configs[i])) \/ hcloud_path = "none")
       => /\ mpc \in {"load", "hcloud", "exited"}
          /\ cmds = <<>>
          /\ runlog = <<>>
          /\ mpc = "exited" => exit_code # 0

\* The server in work has come to its Status Record
Completed == cmds # <<>> /\ Last(cmds).op = "status"

CreateSucceeded == \E i \in 1..Len(cmds) :
    cmds[i].op = "create" /\ cmds[i].out \in {"ok", "onetoken", "empty"}
IdExtracted == \E i \in 1..Len(cmds) :
    /\ cmds[i].op = "create"
    /\ Len(SplitWhitespace(CreateOutput(cmds[i].out, 0, Server))) >= 2
ReportedAvailable == \E i \in 1..Len(cmds) :
    cmds[i].op = "describe" /\ cmds[i].out = "available"

\* C6: the steps of a server that comes to its Status Record are, in this
\* order: a listing, the create command, its describe commands, a second
\* listing, one delete command per candidate of that listing, a third
\* listing, the Status Record.  At any time, every delete command comes after
\* the create command and all its describe commands, and nothing follows the
\* Status Record.
C6_FixedOrderOfSteps ==
    LET n == Len(cmds)
        d == Len(OfOp(cmds, "describe"))
        k == Len(snapshots_to_delete)
    IN  /\ Completed =>
              /\ n = d + k + 5
              /\ cmds[1].op = "list"
              /\ cmds[2].op = "create"
              /\ \A i \in 3..(d + 2) : cmds[i].op = "describe"
              /\ cmds[d + 3].op = "list"
              /\ \A j \in 1..k :
                    /\ cmds[d + 3 + j].op = "delete"
                    /\ cmds[d + 3 + j].arg = snapshots_to_delete[j].id
              /\ cmds[d + k + 4].op = "list"
              /\ Len(OfOp(runlog, "status")) = Len(OfOp(runlog, "start"))
        /\ \A i \in 1..n :
              /\ cmds[i].op = "delete" =>
                    /\ \E j \in 1..(i - 1) : cmds[j].op = "create"
                    /\ \A j \in i..n : cmds[j].op \notin {"create", "describe"}
              /\ cmds[i].op = "status" => i = n
        /\ (mpc = "delete" /\ del_idx = 1 /\ Last(cmds).out = "ok") =>
              snapshots_to_delete =
                  PySliceFrom(SortNewestFirst(OwnSnapshots(provider, Server)),
                              Server.retain_last_snapshots)

\* A server whose creation timed out has deleted two snapshots and written
\* its Status Record.
C6_Witness ==
    /\ Completed
    /\ IdExtracted
    /\ Len(OfOp(cmds, "describe")) > 0
    /\ ~ReportedAvailable
    /\ Len(OfOp(cmds, "delete")) >= 2

C8_OneDeletePerCandidate ==
    (snapshots_to_delete # <<>> /\ mpc # "delete") =>
        LET deletes == OfOp(cmds, "delete")
        IN  /\ Len(deletes) = Len(snapshots_to_delete)
            /\ \A j \in 1..Len(deletes) : deletes[j].arg = snapshots_to_delete[j].id

\* C9: the servers are started in the order of the list, each once; when the
\* run is over every server has been started; after a caught exception the
\* next server is started and the process has not exited.
C9_EveryServerStartedInOrder ==
    LET starts == OfOp(runlog, "start")
    IN  /\ \A i \in 1..Len(starts) : starts[i].server = i
        /\ Len(starts) <= Len(servers)
        /\ mpc = "done" => Len(starts) = Len(servers)
        /\ \A p \in 1..Len(runlog) :
              (runlog[p].op = "caught" /\ runlog[p].server < Len(servers)) =>
                 /\ exit_code = -1
                 /\ IF p < Len(runlog)
                    THEN runlog[p + 1] = RunEv("start", runlog[p].server + 1)
                    ELSE mpc = "start" /\ sidx = runlog[p].server + 1

\* The first of two servers ended in an exception; the second came to its
\* Status Record.
C9_Witness ==
    /\ mpc = "done"
    /\ Len(servers) = 2
    /\ \E p \in 1..Len(runlog) : runlog[p] = RunEv("caught", 1)
    /\ Last(runlog).op = "status" /\ Last(runlog).server = 2

\* C10: every start of a server but the first comes right after one sleep of
\* DELAY_BETWEEN_SERVERS that follows the end of the server before, whether
\* that end was a Status Record or a caught exception; nothing is slept after
\* the last server.
C10_OneDelayBetweenServers ==
    /\ \A p \in 1..Len(runlog) :
          (runlog[p].op = "start" /\ runlog[p].server > 1) =>
             /\ p >= 3
             /\ runlog[p - 1] = SleepEv(runlog[p].server - 1, DELAY_BETWEEN_SERVERS)
             /\ runlog[p - 2].op \in {"status", "caught"}
    /\ \A p \in 1..Len(runlog) :
          runlog[p].op = "sleep" => runlog[p].server < Len(servers)

----------------------------------------------------------------------------
(* mhsnapshots.py: run_command on bounded commands, tokens and endings *)

MaxToken == 14      \* characters in an api_token

\* api_token[:6] + '...' + api_token[-6:]
MaskedToken(token) ==
    PySliceTo(token, 6) \o <<".", ".", ".">> \o PySliceFrom(token, -6)

\* str.replace(old, new): the occurrences of old, left to right and without
\* overlap; an empty old matches before every character and at the end.
RECURSIVE Replace(_, _, _)
Replace(s, old, new) ==
    IF old = <<>>
    THEN IF s = <<>> THEN new ELSE new \o <<s[1]>> \o Replace(Tail(s), old, new)
    ELSE IF Len(s) < Len(old) THEN s
    ELSE IF SubSeq(s, 1, Len(old)) = old
         THEN new \o Replace(SubSeq(s, Len(old) + 1, Len(s)), old, new)
         ELSE <<s[1]>> \o Replace(Tail(s), old, new)

\* A record of the log
LogRecord(level, text) == [level |-> level, text |-> text]

\* How subprocess.run(..., check=True) ends: the process exits with code 0
\* ("exit0"); it exits with another code and CalledProcessError is raised
\* ("nonzero"); the process cannot be started and OSError or PermissionError
\* is raised ("start_failed"); the executable is not there and
\* FileNotFoundError is raised ("not_found").  In the manager's actions the
\* last three are the outcomes "none" and "oserror".
Endings == {"exit0", "nonzero", "start_failed", "not_found"}

\* What the command writes when it runs
Stdout == <<"Command", " ", "output", "\n">>
Stderr == <<"hcloud:", " ", "error", "\n">>

\* env = os.environ.copy(); env["HCLOUD_TOKEN"] = api_token
WithToken(env, token) ==
    {e \in env : e[1] # "HCLOUD_TOKEN"} \cup {<<"HCLOUD_TOKEN", token>>}

\* run_command, lines 147-166: the masked command is logged, the command is
\* split on whitespace and run with the token in its environment; the output
\* is returned, None after CalledProcessError; any other exception of
\* subprocess.run is not caught here.
run_command(command, token, env, end) ==
    [raised |-> end \in {"start_failed", "not_found"},
     value |-> IF end = "exit0" THEN Some(Strip(Stdout)) ELSE None,
     argv |-> SplitWhitespace(command),
     env |-> WithToken(env, token),
     logged |->
        <<LogRecord("INFO", <<"Executing command:", " ">>
                            \o Replace(command, token, MaskedToken(token)))>>
        \o (CASE end = "exit0" ->
                   <<LogRecord("DEBUG", <<"Command stdout:", " ">> \o Strip(Stdout))>>
              [] end = "nonzero" ->
                   <<LogRecord("ERROR", <<"Command failed:", " ">> \o Strip(Stderr)),
                     LogRecord("DEBUG", <<"Failed command output:", " ">>)>>
              [] OTHER -> <<>>)]

RunCommand ==
    /\ cpc = "call"
    /\ LET r == run_command(arg_command, arg_token, environ, ending)
       IN  /\ cpc' = IF r.raised THEN "raised" ELSE "returned"
           /\ ret_value' = r.value
           /\ argv' = r.argv
           /\ child_env' = r.env
           /\ logged' = r.logged
    /\ UNCHANGED <<arg_command, arg_token, ending, environ, retVars, notVars, mgrVars>>

\* The characters tokens and names are written in
Alphabet == <<"a", "b", "c", "d", "e", "f", "g", "h", "i", "j", "k", "l", "m",
              "n", "o", "p", "q", "r", "s", "t">>

Tokens == {SubSeq(Alphabet, 1, n) : n \in 1..MaxToken}

HcloudPath == <<"/usr/bin/hcloud">>

Words(ws) == Join(ws, <<" ">>)

\* Line 169
ListCommand ==
    Words(<<HcloudPath, <<"image">>, <<"list">>, <<"--type">>, <<"snapshot">>,
            <<"--output">>, <<"json">>>>)
\* Line 210
DescribeCommand(id) ==
    Words(<<HcloudPath, <<"image">>, <<"describe">>, id, <<"--output">>, <<"json">>>>)
\* Lines 227-229
CreateCommand(server) ==
    Words(<<HcloudPath, <<"server">>, <<"create-image">>, <<"--type">>, <<"snapshot">>,
            <<"--description">>, NewSnapshotName(server), <<ToString(server.id)>>>>)
\* Line 250
DeleteCommand(id) == Words(<<HcloudPath, <<"image">>, <<"delete">>, id>>)

\* The commands the manager builds for a server with this token: its name is
\* "web", or the very text of its token.
CommandsFor(token) ==
    {ListCommand, DescribeCommand(<<"7">>), DeleteCommand(<<"7">>)}
    \cup {CreateCommand(ServerConfig(1, name, token, 1)) :
             name \in {<<"w", "e", "b">>, token}}

Environments ==
    {{<<"PATH", <<"/usr/bin">>>>},
     {<<"PATH", <<"/usr/bin">>>>, <<"HCLOUD_TOKEN", <<"o", "l", "d">>>>}}

InitCommand ==
    /\ RetentionIdle
    /\ NotifierIdle
    /\ ManagerIdle
    /\ cpc = "call"
    /\ arg_token \in Tokens
    /\ arg_command \in CommandsFor(arg_token)
    /\ ending \in Endings
    /\ environ \in Environments
    /\ argv = <<>>
    /\ child_env = {}
    /\ logged = <<>>
    /\ ret_value = None

NextCommand == RunCommand

SpecCommand == InitCommand /\ [][NextCommand]_vars

\* C11: run_command returns the standard output when the process exits with
\* code 0; when it exits with another code, cannot be started or is not
\* found, run_command logs an error and returns None without raising.
C11_NoResultWithoutRaising ==
    cpc # "call" =>
       IF ending = "exit0"
       THEN cpc = "returned" /\ ret_value = Some(Strip(Stdout))
       ELSE /\ cpc = "returned"
            /\ ret_value = None
            /\ \E i \in 1..Len(logged) : logged[i].level = "ERROR"

----------------------------------------------------------------------------
(* Properties of the wait and of the listings *)

\* The wait of the server in work has returned to create_snapshot
WaitReturned == mpc = "list2" /\ polls > 0

\* C12: the wait issues a describe command only while the elapsed time is
\* below the maximum and no describe has reported 'available'; it sleeps once
\* after every describe that did not report 'available'; a describe that
\* failed or whose output does not parse is such a describe and does not end
\* the loop; the wait returns True right after the first 'available' and
\* False once the time is up.
C12_PollUntilAvailableOrTimeout ==
    /\ mpc = "poll" =>
          /\ elapsed < DefaultMaxWaitTime
          /\ naps = polls
          /\ ~ReportedAvailable
    /\ mpc = "poll_sleep" => (polls = naps + 1 /\ ~ReportedAvailable)
    /\ WaitReturned =>
          IF ReportedAvailable
          THEN /\ snapshot_name # <<>>
               /\ Last(cmds) = Cmd("describe", snapshot_id, "available")
               /\ naps = polls - 1
          ELSE /\ snapshot_name = <<>>
               /\ naps = polls
               /\ elapsed >= DefaultMaxWaitTime
    /\ elapsed >= naps * PollInterval
    /\ (/\ cmds # <<>>
        /\ Last(cmds).op = "describe"
        /\ Last(cmds).out \in {"creating", "none", "garbage", "oserror"})
          => mpc \in {"poll", "poll_sleep", "list2"}

\* C16: after a list command whose response is absent or is not the expected
\* JSON, nothing is raised: the work on the server goes on with an empty
\* list, which gives no deletion candidate and a count of zero.
C16_BadListingIsEmptyListing ==
    (/\ cmds # <<>>
     /\ Last(cmds).op = "list"
     /\ Last(cmds).out \in {"none", "empty", "garbage", "badjson", "oserror"})
       => /\ mpc \in {"create", "list3", "status"}
          /\ mpc = "list3" => snapshots_to_delete = <<>>
          /\ mpc = "status" => total_snapshots = 0

----------------------------------------------------------------------------
(* Properties of the scan of process_log *)

DashAt(s, i) ==
    i + Len(DASH) - 1 <= Len(s) /\ SubSeq(s, i, i + Len(DASH) - 1) = DASH

\* The text after the second ' - ' of a line begins with the tag, in
\* whatever case, followed by a bar with at most whitespace between them.
Qualifies(line) ==
    LET s == Strip(line)
    IN  \E i \in 1..Len(s) :
           /\ DashAt(s, i) /\ \A k \in 1..(i - 1) : ~DashAt(s, k)
           /\ \E j \in (i + Len(DASH))..Len(s) :
                 /\ DashAt(s, j) /\ \A k \in (i + Len(DASH))..(j - 1) : ~DashAt(s, k)
                 /\ LET m == SubSeq(s, j + Len(DASH), Len(s))
                    IN  /\ m # <<>>
                        /\ Upper(m[1]) = "FINAL_STATUS"
                        /\ \E n \in 2..Len(m) :
                              m[n] = "|" /\ \A k \in 2..(n - 1) : m[k] \in Whitespace

QualifyingLineNumbers(f) == { i \in 1..Len(f.lines) : Qualifies(f.lines[i]) }

\* The line numbers process_log has relayed, in the order of the relays
Relayed == [i \in 1..Len(OfOp(relay, "send")) |-> OfOp(relay, "send")[i].arg]

\* C13: process_log relays the lines that have a third ' - ' part beginning
\* with the tag and a bar, and no other line: the relayed line numbers are
\* qualifying ones in ascending order, and when process_log is over they are
\* all of them; the scan keeps exactly these lines.
C13_RelaysExactlyStatusLines ==
    /\ \A i \in 1..Len(Relayed) : Relayed[i] \in QualifyingLineNumbers(log_file)
    /\ \A i, j \in 1..Len(Relayed) : i < j => Relayed[i] < Relayed[j]
    /\ npc # "scan" =>
          { final_status_entries[i].line_number : i \in 1..Len(final_status_entries) }
             = QualifyingLineNumbers(log_file)
    /\ npc = "done" => Range(Relayed) = QualifyingLineNumbers(log_file)

\* A file of three lines of which only the second is relayed: the first has
\* the tag after the start of its message, the third has the tag and no bar.
C13_Witness ==
    /\ npc = "done"
    /\ Len(log_file.lines) = 3
    /\ log_file.lines[1] = LogLine("DEBUG", <<"Processed", " ">> \o StatusMessage1)
    /\ log_file.lines[2] = LogLine("INFO", StatusMessageShort)
    /\ log_file.lines[3] = LogLine("INFO", <<"FINAL_STATUS", " ", "written">>)
    /\ Relayed = <<2>>

----------------------------------------------------------------------------
(* The Status Record from write_final_status to format_message *)

Hostname == <<"host">>
RecordTimestamp == <<"2024-12-02", " ", "13:32:34">>

\* The fields write_final_status puts into the record, in their order
RecordFields(server, name, total, status) ==
    << <<"FINAL_STATUS">>, <<"mhsnapshots.py">>, server.name, <<status>>, Hostname,
       RecordTimestamp, name, <<ToString(total), " ", "snapshots", " ", "exist">> >>

\* write_final_status, line 260: the f-string of the record
write_final_status(server, name, total, status) ==
    <<"FINAL_STATUS", " ", "|", " ", "mhsnapshots.py", " ", "|", " ">> \o server.name
    \o <<" ", "|", " ", status, " ", "|", " ">> \o Hostname
    \o <<" ", "|", " ">> \o RecordTimestamp
    \o <<" ", "|", " ">> \o name
    \o <<" ", "|", " ", ToString(total), " ", "snapshots", " ", "exist">>

\* manage_snapshots_for_server, lines 295-300, and write_final_status: the
\* record goes to the log file through logger.info; the notifier is run on
\* that file afterwards.
WriteFinalStatus ==
    /\ mpc = "status"
    /\ npc = "idle"
    /\ log_file' = FileOf(<<LogLine("INFO",
                       write_final_status(Server, NameOrNone(snapshot_name),
                                          total_snapshots, StatusOf(snapshot_name)))>>)
    /\ mpc' = AfterServer(sidx, Len(servers))
    /\ npc' = "scan"
    /\ UNCHANGED <<cfgVars, runVars, final_status_entries, idx, relay, sendVars,
                   retVars, cmdVars>>

\* Server names: a plain one, one with ' - ' in it, one with ' | ' in it
ServerNames ==
    {<<"example.com">>, <<"web", " ", "-", " ", "1">>, <<"db", " ", "|", " ", "eu">>}

InitRecord ==
    /\ RetentionIdle
    /\ NotifierIdle
    /\ CommandIdle
    /\ mpc = "status"
    /\ \E name \in ServerNames :
          /\ configs = <<Good(1, IntVal(1))>>
          /\ servers = <<ServerConfig(1, name, TokenOf(1), 1)>>
    /\ hcloud_path = "found"
    /\ exit_code = -1
    /\ sidx = 1
    /\ provider = <<>>
    /\ clock = MaxTime + 1
    /\ faults = 0
    /\ snapshot_id = <<>>
    /\ snapshot_name \in {<<>>, NewSnapshotName(servers[1])}
    /\ elapsed = 0 /\ polls = 0 /\ naps = 0
    /\ snapshots_to_delete = <<>>
    /\ del_idx = 0
    /\ total_snapshots \in 0..(MaxSnaps + 1)
    /\ cmds = <<>>
    /\ runlog = <<>>

NextRecord ==
    \/ WriteFinalStatus
    \/ Scan
    \/ ProcessEntry
    \/ SendBegin
    \/ Post
    \/ RetrySleep
    \/ AfterSend

SpecRecord == InitRecord /\ [][NextRecord]_vars

\* The fields of the record of the server in work
Written ==
    RecordFields(Server, NameOrNone(snapshot_name), total_snapshots,
                 StatusOf(snapshot_name))

\* C14: the record written has the eight fields, in their order, between
\* ' | ' separators; the scan of the notifier selects its log line with the
\* record as the message; format_message takes the message as well formed
\* and puts the eight fields written into its template.
C14_RecordRoundTrip ==
    /\ mpc = "done" =>
          /\ log_file.lines = <<LogLine("INFO", Join(Written, SEP))>>
          /\ Split(Join(Written, SEP), SEP) = Written
    /\ npc \in {"loop", "send_call", "post", "returned", "done"} =>
          /\ Len(final_status_entries) = 1
          /\ final_status_entries[1].message = Join(Written, SEP)
    /\ npc \in {"post", "returned", "done"} =>
          /\ ~warned
          /\ formatted_message = Template(Written)

----------------------------------------------------------------------------
(* Properties of the retention count *)

\* C15: every server load_configs has produced has a retention count of zero
\* or more, and the slices of manage_snapshots_for_server are never taken with
\* a negative count.
C15_RetentionNeverNegative ==
    /\ \A i \in 1..Len(servers) : servers[i].retain_last_snapshots >= 0
    /\ mpc \in {"list2", "delete", "list3"} => Server.retain_last_snapshots >= 0

----------------------------------------------------------------------------
(* Termination: either utility, run to its end *)

\* The manager on configuration files with nothing wrong, or the notifier on
\* a log file
InitLive ==
    \/ /\ Init
       /\ \A i \in 1..Len(configs) : configs[i] = Good(i, IntVal(1))
    \/ InitNotifier

NextLive == Next \/ NextNotifier

\* Either utility is at a statement it has still to execute
Running == mpc \notin {"idle", "done", "exited"} \/ npc \notin {"idle", "done"}

\* A program that is not over takes its next step: commands return, and the
\* clock advances, so every sleep ends. This is weak fairness of NextLive,
\* with the states where a step is possible written out as Running.
Fairness == []<>(~Running) \/ []<><<NextLive>>_vars

SpecLive == InitLive /\ [][NextLive]_vars /\ Fairness

SetupDone == mpc = "start" /\ sidx = 1

ManagerOver ==
    /\ mpc = "done"
    /\ exit_code = -1
    /\ [i \in 1..Len(OfOp(runlog, "start")) |-> OfOp(runlog, "start")[i].server]
          = [i \in 1..Len(servers) |-> i]

NotifierOver ==
    /\ npc = "done"
    /\ Range(Relayed) = QualifyingLineNumbers(log_file)
    /\ Len(OfOp(relay, "result")) = Len(Relayed)

\* C17: once the configuration is loaded and hcloud found, the manager comes
\* to the end of run() with every server started, whatever its commands gave;
\* the notifier comes to the end of process_log with every qualifying record
\* sent or given up, whatever its POSTs gave.
C17_RunsTerminate ==
    /\ SetupDone ~> ManagerOver
    /\ (npc = "scan") ~> NotifierOver

\* The manager is over after two servers: the first ended in an exception,
\* the second wrote FAILURE after a command had failed.
C17_Witness ==
    /\ ManagerOver
    /\ Len(servers) = 2
    /\ \E p \in 1..Len(runlog) : runlog[p] = RunEv("caught", 1)
    /\ Last(runlog).op = "status" /\ Last(runlog).status = "FAILURE"

----------------------------------------------------------------------------
(* Snapshots of other servers *)

\* The snapshots the provider holds that were, or were not, created from the
\* server in work
CreatedFrom(p, id) == SelectSeq(p, LAMBDA s : s.from = id)
CreatedElsewhere(p, id) == SelectSeq(p, LAMBDA s : s.from # id)

\* The step issues a delete command
DeleteIssued ==
    /\ Len(cmds') = Len(cmds) + 1
    /\ Last(cmds').op = "delete"

\* C18: while a server is processed, every delete command names a snapshot the
\* provider holds as created from that server, no snapshot created from
\* another server leaves the provider, and the count that a listing gives is
\* the number of snapshots created from that server, although the listing
\* holds all snapshots.
C18_OnlyOwnSnapshots ==
    [][(sidx \in 1..Len(servers)) =>
          (/\ (DeleteIssued =>
                 (\E i \in 1..Len(CreatedFrom(provider, Server.id)) :
                     <<ToString(CreatedFrom(provider, Server.id)[i].id)>> = Last(cmds').arg))
           /\ CreatedElsewhere(provider', Server.id) = CreatedElsewhere(provider, Server.id)
           /\ total_snapshots' \in {total_snapshots, 0, Len(CreatedFrom(provider', Server.id))})
      ]_vars

\* A delete command went out, and the final count was taken, while the
\* provider held a snapshot of another server older than every snapshot of
\* this server.
C18_Witness ==
    /\ mpc = "status"
    /\ total_snapshots > 0
    /\ \E p \in 1..Len(cmds) : cmds[p].op = "delete" /\ cmds[p].out = "ok"
    /\ \E i \in 1..Len(provider) :
          /\ provider[i].from = OtherServer
          /\ \A j \in 1..Len(provider) :
                provider[j].from # OtherServer => provider[i].created < provider[j].created

----------------------------------------------------------------------------
(* Retention after a wait that gave up *)

\* The create command gave an id and no describe command reported
\* 'available'
TimedOut == CreateSucceeded /\ IdExtracted /\ ~ReportedAvailable

\* The second listing has just returned the provider's content
JustListed ==
    /\ mpc \in {"delete", "list3"}
    /\ Last(cmds) = Cmd("list", <<>>, "ok")
    /\ Len(OfOp(cmds, "list")) = 2

CandidateIds == {snapshots_to_delete[i].id : i \in 1..Len(snapshots_to_delete)}

\* C19: after a wait that gave up, the second listing holds the new snapshot,
\* and retention counts it as the newest one: it takes one of the
\* retain_last_snapshots kept places (it is a candidate only when nothing is
\* kept), the candidates are all the server's snapshots but the newest
\* retain_last_snapshots with the new one counted, and none of them is newer
\* than a kept one; the run says FAILURE.
C19_TimedOutSnapshotCounts ==
    /\ (TimedOut /\ JustListed) =>
          LET own == CreatedFrom(provider, Server.id)
              retain == Server.retain_last_snapshots
              kept == {i \in 1..Len(own) : <<ToString(own[i].id)>> \notin CandidateIds}
          IN  /\ \E i \in 1..Len(own) : <<ToString(own[i].id)>> = snapshot_id
              /\ Len(snapshots_to_delete) =
                    IF Len(own) > retain THEN Len(own) - retain ELSE 0
              /\ Cardinality(CandidateIds) = Len(snapshots_to_delete)
              /\ snapshot_id \in CandidateIds <=> retain = 0
              /\ \A i \in 1..Len(own) :
                    i \notin kept => \A k \in kept : own[i].created <= own[k].created
    /\ (TimedOut /\ Completed) => Last(OfOp(runlog, "status")).status = "FAILURE"

\* The run says FAILURE, the new snapshot stayed, and the one delete command
\* removed an older snapshot that the retention count alone would have kept.
C19_Witness ==
    /\ TimedOut /\ Completed
    /\ Last(OfOp(runlog, "status")).status = "FAILURE"
    /\ Server.retain_last_snapshots >= 1
    /\ Len(OfOp(cmds, "delete")) = 1
    /\ OfOp(cmds, "delete")[1].out = "ok"
    /\ OfOp(cmds, "delete")[1].arg # snapshot_id
    /\ Len(CreatedFrom(provider, Server.id)) = Server.retain_last_snapshots
    /\ \E i \in 1..Len(provider) : <<ToString(provider[i].id)>> = snapshot_id

----------------------------------------------------------------------------
(* The token of an invocation *)

CommandOver == cpc \in {"returned", "raised"}

\* C20: the token reaches the command only as HCLOUD_TOKEN in the environment
\* of that invocation, which is otherwise the manager's own; no argument of
\* the command line is the token; the manager's own environment does not get
\* the token; and no text that run_command logs contains the whole token.
C20_TokenOnlyInChildEnvironment ==
    CommandOver =>
        /\ child_env = {e \in environ : e[1] # "HCLOUD_TOKEN"}
                          \cup {<<"HCLOUD_TOKEN", arg_token>>}
        /\ \A i \in 1..Len(argv) : argv[i] # arg_token
        /\ argv = SplitWhitespace(arg_command)
        /\ <<"HCLOUD_TOKEN", arg_token>> \notin environ
        /\ logged # <<>>
        /\ \A i \in 1..Len(logged) : ~Contains(logged[i].text, arg_token)

----------------------------------------------------------------------------
(* Snapshots with equal creation times *)

\* The place of a snapshot in the list as the call left it
PlaceOf(x) == CHOOSE p \in 1..Len(arg_snapshots) : arg_snapshots[p] = x

\* C21: the sort leaves the snapshots newest first, and snapshots with equal
\* creation times in the order the query returned them; the snapshots to
\* delete are the sorted list past its first r places, so of two snapshots
\* with equal times the one returned later is deleted whenever the one
\* returned earlier is.
C21_TiesKeepQueryOrder ==
    fpc = "returned" =>
        LET n == Len(input0)
        IN  /\ Len(arg_snapshots) = n
            /\ Range(arg_snapshots) = Range(input0)
            /\ \A p, q \in 1..n :
                  p < q => arg_snapshots[p].created_at >= arg_snapshots[q].created_at
            /\ \A i, j \in 1..n :
                  (i < j /\ input0[i].created_at = input0[j].created_at) =>
                      /\ PlaceOf(input0[i]) < PlaceOf(input0[j])
                      /\ input0[i] \in Range(to_delete) => input0[j] \in Range(to_delete)
            /\ to_delete = SubSeq(arg_snapshots, Min(arg_retain, n) + 1, n)

\* Three snapshots of one creation time and two to keep: the one the query
\* returned last is the one to delete.
C21_Witness ==
    /\ fpc = "returned"
    /\ Len(input0) = 3
    /\ arg_retain = 2
    /\ input0[1].created_at = input0[2].created_at
    /\ input0[2].created_at = input0[3].created_at
    /\ arg_snapshots = input0
    /\ to_delete = <<input0[3]>>

----------------------------------------------------------------------------
(* The provider after a run in which every command succeeded *)

\* The server's processing is over and every command did what it was for:
\* the listings, the creation and the deletions succeeded, and a describe
\* command reported 'available'.
AllSucceeded ==
    /\ Completed
    /\ ReportedAvailable
    /\ \A i \in 1..Len(cmds) : cmds[i].out \in {"ok", "available", "creating"}

\* The snapshots the delete commands of the run named, and those of the
\* server that the provider still holds, as id and creation time
DeletedIds == {cmds[i].arg : i \in {j \in 1..Len(cmds) : cmds[j].op = "delete"}}
Deleted == {s \in Range(snapshots_to_delete) : s.id \in DeletedIds}
Remaining ==
    LET own == CreatedFrom(provider, Server.id)
    IN  {[id |-> <<ToString(own[i].id)>>, created_at |-> own[i].created] :
            i \in 1..Len(own)}

=============================================================================
